---------------------------- MODULE Spec2Model ----------------------------
(***************************************************************************)
(* Model of the TAPS API v3.0 cache-backed rebuild pipeline                *)
(* (src/api/main.py): the Redis cache, the distributed rebuild lock, the   *)
(* background rebuild tasks started by the HTTP endpoints, the             *)
(* cursor-based per-location sales sync and the /api/taps read path.       *)
(*                                                                         *)
(* Abstractions                                                            *)
(*  - Redis is connected (rdb is not None).  A step is one Redis command   *)
(*    or one upstream call together with the local computation around it;  *)
(*    consecutive commands of one function with no upstream call between   *)
(*    them (the two GETs of the existing aggregate, the SETs of the raw    *)
(*    aggregate and its totals) are taken as one step.                     *)
(*  - The upstream orders of a location are numbered 1..up[l] in ascending *)
(*    creation order (at most MaxOrders over all locations); order k has   *)
(*    creation timestamp k and one line item of quantity 1.  Cancelled and *)
(*    voided orders contribute nothing and are left out of the stream.     *)
(*  - A sales aggregate maps each location to its summed quantity (0: no   *)
(*    entry for the location); the per-location totals have the same shape.*)
(*  - The keys with a TTL of days (sales, totals, cursors: 7 and 14 days)  *)
(*    do not expire within a run; the lock (300 s), the dashboard (600 s), *)
(*    the inventory (1 h) and the location list (24 h) do.                 *)
(*  - The worker pool of pull_sales_all runs pull_one of every location;   *)
(*    the locations touch disjoint cursor keys, so one rebuild visits them *)
(*    in index order, while different rebuilds interleave freely.          *)
(***************************************************************************)
EXTENDS Integers, FiniteSets, Sequences, TLC

\* ------------------------------------------------------------ bounds
NumTasks == 2
NumLocs == 2
MaxOrders == 2
MaxInv == 1
MaxAge == 5
NumPulls == 2
NumVids == 2
MaxItems == 3
NumStores == 3
MaxStamp == 2

\* --------------------------------------------------- program constants
\* WOS_DEFAULT = 2.5, in tenths
WOS_DEFAULT == 25
DAYS_DEFAULT == 31
\* PAGE_SIZE = 500 orders, scaled so that a fetch of MaxOrders has several pages
PAGE_SIZE == 1
\* pull_one: a cursor of at most 3 days is used
STALE_DAYS == 3

Tasks == 1..NumTasks
Locs == 1..NumLocs
WosValues == {WOS_DEFAULT, 30}
DaysValues == {DAYS_DEFAULT, 7}
\* The ages in days a stored cursor is found to have: the last fresh one and
\* the first stale one
Ages == {STALE_DAYS, STALE_DAYS + 1}

\* Executions of pull_inventory in flight, item ids (variantId), supplier names
Pulls == 1..NumPulls
Vids == 1..NumVids
Suppliers == {"acme"}

\* Absent values
NoLock == 0
NoCursor == 0
NoInv == -1
EmptyInv == 0
NoneV == <<>>
EmptyAgg == [l \in Locs |-> 0]
NoSup == ""
NoSups == [v \in Vids |-> NoSup]

VARIABLES
    \* --- Redis
    lock,        \* cache:rebuild:lock : NoLock or the owner's lock_id
    locations,   \* taps:locations cached (TRUE) or not
    inventory,   \* taps:inventory : NoInv, EmptyInv or an inventory 1..MaxInv
    sales,       \* taps:sales : NoneV or an aggregate
    totals,      \* taps:sales_store_totals : NoneV or per-location totals
    dashboard,   \* taps:dashboard : a snapshot (status "none": absent)
    cursor,      \* taps:cursor:<loc> : NoCursor or a creation timestamp
    progress,    \* taps:rebuild:progress : "none" or the phase
    \* --- upstream
    up,          \* up[l] : number of orders of location l visible upstream
    \* --- background rebuild tasks
    pc, kind, tdays, tincr, acquired, dirty, result, wrote,
    tinv, li, last, items, ffail, agg, st,
    \* --- one /api/taps request
    rpc, rwos, rdays, rval, rpath,
    \* --- pull_inventory at statement level: the supplier memory
    supplier_map, ipc, irows, imap, iout, learned, after,
    \* --- aggregate_sales applied to a list of line items
    raw_items, agg_out,
    \* --- run_taps applied to chosen arguments
    eng_in, eng_out

cacheVars == <<lock, locations, inventory, sales, totals, dashboard, cursor, progress>>
taskVars == <<pc, kind, tdays, tincr, acquired, dirty, result, wrote,
              tinv, li, last, items, ffail, agg, st>>
fetchVars == <<tinv, li, last, items, ffail, agg, st>>
readVars == <<rpc, rwos, rdays, rval, rpath>>
supVars == <<supplier_map, ipc, irows, imap, iout, learned, after>>
aggVars == <<raw_items, agg_out>>
engVars == <<eng_in, eng_out>>
pureVars == <<aggVars, engVars>>
detailVars == <<supVars, pureVars>>
pipeVars == <<cacheVars, up, taskVars, readVars>>
vars == <<cacheVars, up, taskVars, readVars, detailVars>>

\* ------------------------------------------------------------ snapshots
NoSnap == [status |-> "none", inv |-> NoInv, sales |-> NoneV, st |-> NoneV,
           wos |-> 0, days |-> 0]
EmptySnap == [status |-> "ok", inv |-> EmptyInv, sales |-> NoneV, st |-> NoneV,
              wos |-> 0, days |-> 0]
Warming == [status |-> "warming", inv |-> EmptyInv, sales |-> NoneV, st |-> NoneV,
            wos |-> 0, days |-> 0]

\* run_taps: the snapshot is determined by the inventory, the aggregates and
\* the two computation parameters; an empty inventory gives the empty snapshot.
run_taps(inv, sl, stt, wos, days) ==
    IF inv = NoInv \/ inv = EmptyInv THEN EmptySnap
    ELSE [status |-> "ok", inv |-> inv, sales |-> sl, st |-> stt,
          wos |-> wos, days |-> days]

\* Python truthiness of a cached aggregate / inventory
Truthy(a) == a # NoneV /\ a # EmptyAgg
InvTruthy(i) == i # NoInv /\ i # EmptyInv

\* aggregate_sales on the fetched line items (items[l]: number of unit line
\* items fetched for location l): summed quantity per location, and the
\* per-location totals.
aggregate_sales(its) ==
    [a |-> [l \in Locs |-> its[l]], s |-> [l \in Locs |-> its[l]]]

Max(a, b) == IF a >= b THEN a ELSE b

RECURSIVE SumTo(_, _)
SumTo(f, n) == IF n = 0 THEN 0 ELSE f[n] + SumTo(f, n - 1)
\* The sum of a per-location count
SumOver(f) == SumTo(f, NumLocs)

\* ------------------------------------------------------------ binary64
\* Python floats are IEEE-754 binary64 values.  A non-negative finite double is
\* [e, m] with value m * 2^e, where m is its 53-bit significand (2^52 <= m <
\* 2^53); zero has the empty significand.  An integer wider than 31 bits is a
\* sequence of limbs of LimbBits bits, most significant first, without
\* leading zero limbs.
LimbBits == 15
Limb == 2 ^ LimbBits
SigBits == 53
\* Fraction bits kept when dividing by 100, so that the quotient has more than
\* SigBits bits
QuotBits == 70

FZero == [e |-> 0, m |-> <<>>]

Zeros(n) == [i \in 1..n |-> 0]

\* The element of a one-element set.  An operator below that uses an operand
\* several times takes it as the element v of {operand}, so that the operand
\* is evaluated once.
The(S) == CHOOSE v \in S : TRUE

RECURSIVE LStrip(_)
\* Without the leading zero limbs
LStrip(a) ==
    The({IF v = <<>> THEN <<>> ELSE IF Head(v) # 0 THEN v ELSE LStrip(Tail(v)) :
            v \in {a}})

RECURSIVE NatLimbs(_)
\* The limbs of a natural number
NatLimbs(n) == IF n = 0 THEN <<>> ELSE Append(NatLimbs(n \div Limb), n % Limb)

RECURSIVE BitLen(_)
\* The number of bits of a natural number below Limb
BitLen(n) == IF n = 0 THEN 0 ELSE 1 + BitLen(n \div 2)

\* The number of bits of a limb sequence
LBitLen(a) ==
    The({IF s = <<>> THEN 0 ELSE LimbBits * (Len(s) - 1) + BitLen(s[1]) :
            s \in {LStrip(a)}})

RECURSIVE MulFrom(_, _, _, _)
\* Limbs 1..i of a * k plus the carry into limb i, preceded by the last carry
MulFrom(a, k, i, carry) ==
    IF i = 0 THEN <<carry>>
    ELSE The({Append(MulFrom(a, k, i - 1, t \div Limb), t % Limb) :
                 t \in {a[i] * k + carry}})

\* a * k for 0 < k <= Limb
LMul(a, k) == The({LStrip(MulFrom(v, k, Len(v), 0)) : v \in {a}})

RECURSIVE AddFrom(_, _, _, _)
\* Limbs 1..i of a + b, given the carry into limb i
AddFrom(a, b, i, carry) ==
    IF i = 0 THEN <<>>
    ELSE The({Append(AddFrom(a, b, i - 1, t \div Limb), t % Limb) :
                 t \in {a[i] + b[i] + carry}})

\* a + b
LAdd(a, b) ==
    The({The({LStrip(AddFrom(p, q, Len(p), 0)) :
                 p \in {Zeros(Max(Len(v), Len(w)) + 1 - Len(v)) \o v},
                 q \in {Zeros(Max(Len(v), Len(w)) + 1 - Len(w)) \o w}}) :
            v \in {a}, w \in {b}})

RECURSIVE DivFrom(_, _, _)
\* Quotient and remainder of limbs 1..i of a by d, for 0 < d <= Limb
DivFrom(a, d, i) ==
    IF i = 0 THEN [q |-> <<>>, r |-> 0]
    ELSE The({[q |-> Append(p.q, (p.r * Limb + a[i]) \div d),
               r |-> (p.r * Limb + a[i]) % d] :
                 p \in {DivFrom(a, d, i - 1)}})

\* a * 2^k
ShiftLeft(a, k) ==
    The({IF v = <<>> THEN <<>>
         ELSE LMul(v, 2 ^ (k % LimbBits)) \o Zeros(k \div LimbBits) :
            v \in {a}})

\* a \div 2^k, and whether a nonzero bit was shifted out
ShiftRight(a, k) ==
    The({The({[q |-> LStrip(d.q),
               lost |-> d.r # 0 \/ \E i \in (keep + 1)..Len(v) : v[i] # 0] :
                 d \in {DivFrom(v, 2 ^ (k % LimbBits), keep)}}) :
            v \in {a}, keep \in {Max(Len(a) - (k \div LimbBits), 0)}})

\* The integer nearest to a / 2^k for k >= 1, ties to even
RoundShift(a, k) ==
    The({The({IF h.q # <<>> /\ h.q[Len(h.q)] % 2 = 1
                 /\ (h.lost \/ (head # <<>> /\ head[Len(head)] % 2 = 1))
              THEN LAdd(head, <<1>>)
              ELSE head :
                 head \in {ShiftRight(h.q, 1).q}}) :
            h \in {ShiftRight(a, k - 1)}})

\* Round to nearest, ties to even: the double nearest to (a + f) * 2^e, where
\* 0 < f < 1 if sticky and f = 0 otherwise
RoundSig(a, sticky, e) ==
    The({IF n = 0 THEN FZero
         ELSE IF n <= SigBits
         THEN [e |-> e - (SigBits - n), m |-> ShiftLeft(v, SigBits - n)]
         ELSE The({The({The({IF LBitLen(r) > SigBits
                             THEN [e |-> e + (n - SigBits) + 1,
                                   m |-> ShiftRight(r, 1).q]
                             ELSE [e |-> e + (n - SigBits), m |-> r] :
                                r \in {IF h.q[Len(h.q)] % 2 = 1
                                          /\ (sticky \/ h.lost
                                              \/ head[Len(head)] % 2 = 1)
                                       THEN LAdd(head, <<1>>)
                                       ELSE head}}) :
                           head \in {ShiftRight(h.q, 1).q}}) :
                      h \in {ShiftRight(v, n - SigBits - 1)}}) :
            v \in {LStrip(a)}, n \in {LBitLen(a)}})

\* x + y of two floats
FAdd(x, y) ==
    The({IF v.m = <<>> THEN w
         ELSE IF w.m = <<>> THEN v
         ELSE LET hi == IF v.e >= w.e THEN v ELSE w
                  lo == IF v.e >= w.e THEN w ELSE v
              IN  RoundSig(LAdd(ShiftLeft(hi.m, hi.e - lo.e), lo.m), FALSE, lo.e) :
            v \in {x}, w \in {y}})

\* x / n for a float x and a natural number n > 0 (below Limb)
FDivNat(x, n) ==
    The({IF v.m = <<>> THEN FZero
         ELSE The({RoundSig(d.q, d.r # 0, v.e - QuotBits) :
                      d \in {DivFrom(ShiftLeft(v.m, QuotBits), n,
                                     Len(ShiftLeft(v.m, QuotBits)))}}) :
            v \in {x}})

\* float(n) for a natural number n
FromNat(n) == RoundSig(NatLimbs(n), FALSE, 0)

\* The float that a JSON amount of c hundredths parses to, and that
\* round(x, 2) returns: the double nearest to c / 100
FromCents(c) == FDivNat(FromNat(c), 100)

RECURSIVE ToNat(_)
\* The natural number of a limb sequence (below 2^31)
ToNat(a) ==
    The({IF v = <<>> THEN 0
         ELSE ToNat(SubSeq(v, 1, Len(v) - 1)) * Limb + v[Len(v)] :
            v \in {a}})

RECURSIVE MulBig(_, _, _)
\* a times limbs 1..j of b
MulBig(a, b, j) ==
    IF j = 0 THEN <<>>
    ELSE LAdd(ShiftLeft(MulBig(a, b, j - 1), LimbBits), LMul(a, b[j]))

\* x * y of two floats
FMul(x, y) ==
    The({IF v.m = <<>> \/ w.m = <<>> THEN FZero
         ELSE RoundSig(MulBig(v.m, w.m, Len(w.m)), FALSE, v.e + w.e) :
            v \in {x}, w \in {y}})

\* round(x): the integer nearest to x, ties to even
ToUnits(x) ==
    The({IF v.m = <<>> THEN 0
         ELSE IF v.e >= 0 THEN ToNat(ShiftLeft(v.m, v.e))
         ELSE ToNat(RoundShift(v.m, -v.e)) :
            v \in {x}})

\* The hundredths of round(x, 2): the integer nearest to 100 x, ties to even
ToCents(x) ==
    The({IF v.m = <<>> THEN 0
         ELSE IF v.e >= 0 THEN ToNat(ShiftLeft(LMul(v.m, 100), v.e))
         ELSE ToNat(RoundShift(LMul(v.m, 100), -v.e)) :
            v \in {x}})

\* round(x, 2)
Round2(x) == FromCents(ToCents(x))

\* ------------------------------------------------------------ aggregate_sales
\* A line item as pull_store_sales builds it: store, item id, quantity, the
\* amount tp in hundredths (the item holds the float round(tp, 2); td, nr and
\* tc are floats summed in the same way and are left out) and dt as the index
\* of the week the order falls in (1: the last 7 days, ... 4; 0: older).
Amounts == {10, 20, 30}
Weeks == 1..2
LineItems == [s : Locs, vid : {1}, q : {1}, tp : Amounts, dt : Weeks]

RECURSIVE KeysOf(_, _)
\* The (store, item id) keys of items 1..n in the order of their first
\* occurrence: the insertion order of the dict agg
KeysOf(its, n) ==
    IF n = 0 THEN <<>>
    ELSE LET ks == KeysOf(its, n - 1)
             k == <<its[n].s, its[n].vid>>
         IN  IF \E i \in 1..Len(ks) : ks[i] = k THEN ks ELSE Append(ks, k)

RECURSIVE SumQ(_, _)
\* a["q"] += item["q"] over items 1..n
SumQ(its, n) == IF n = 0 THEN 0 ELSE SumQ(its, n - 1) + its[n].q

RECURSIVE SumTp(_, _)
\* a["tp"] += item["tp"] over items 1..n, starting from the integer 0
SumTp(its, n) ==
    IF n = 0 THEN FZero ELSE FAdd(SumTp(its, n - 1), FromCents(its[n].tp))

\* aggregate_sales(raw_items, days): the list of aggregates and store_totals.
\* wv = q / weeks is kept as the pair of its operands.
aggregate_raw_items(its, days) ==
    LET keys == KeysOf(its, Len(its))
        Of(k) == SelectSeq(its, LAMBDA it : <<it.s, it.vid>> = k)
        At(sn) == SelectSeq(its, LAMBDA it : it.s = sn)
        In(k, b) == SelectSeq(its, LAMBDA it : <<it.s, it.vid>> = k /\ it.dt = b)
    IN  [result |->
            [i \in 1..Len(keys) |->
                [s |-> keys[i][1], vid |-> keys[i][2],
                 q |-> SumQ(Of(keys[i]), Len(Of(keys[i]))),
                 tp |-> SumTp(Of(keys[i]), Len(Of(keys[i]))),
                 w |-> [b \in 1..4 |-> SumQ(In(keys[i], b), Len(In(keys[i], b)))],
                 wv |-> <<SumQ(Of(keys[i]), Len(Of(keys[i]))), days>>]],
         store_totals |->
            [sn \in {its[i].s : i \in 1..Len(its)} |->
                [q |-> SumQ(At(sn), Len(At(sn))),
                 tp |-> SumTp(At(sn), Len(At(sn)))]]]

\* ------------------------------------------------------------ run_taps in detail
\* The stores and brands of the engine's inputs; the rule of COGS_OVERRIDES
\* for the brand "Fade" in the category "Carts" (10.65, in hundredths)
Stores == 1..NumStores
Brands == {"Fade", "House"}
NoOverride == -1
NoMeta == <<>>
FadeCartsUc == 1065

\* get_cogs_override: the override unit cost of a brand and category, in
\* hundredths, or NoOverride
get_cogs_override(b, cat) ==
    IF b = "Fade" /\ cat = "Carts" THEN FadeCartsUc ELSE NoOverride

RECURSIVE inv_map(_, _)
\* The inventory rows 1..n merged by (store, item id), in the order of the
\* first occurrence of each key, the on-hand units of a repeated key added
inv_map(inv_rows, n) ==
    IF n = 0 THEN <<>>
    ELSE The({LET item == inv_rows[n]
                  I == {i \in 1..Len(m) : m[i].s = item.s /\ m[i].vid = item.vid}
              IN  IF I = {} THEN Append(m, item)
                  ELSE [i \in 1..Len(m) |->
                           IF i \in I THEN [m[i] EXCEPT !.oh = @ + item.oh]
                           ELSE m[i]] :
                 m \in {inv_map(inv_rows, n - 1)}})

\* sales_map.get((store, vid)): the index of the last entry of the key, or 0
sales_map(entries, store, vid) ==
    LET I == {i \in 1..Len(entries) : entries[i].s = store /\ entries[i].vid = vid}
    IN  IF I = {} THEN 0 ELSE CHOOSE i \in I : \A j \in I : j <= i

RECURSIVE SumWv(_, _, _)
\* sum(vels): the wv of the entries 1..n of an item id added in list order
SumWv(entries, vid, n) ==
    IF n = 0 THEN FZero
    ELSE IF entries[n].vid = vid THEN FAdd(SumWv(entries, vid, n - 1), entries[n].wv)
    ELSE SumWv(entries, vid, n - 1)

\* vid_vels[vid] = sum(vels) / len(vels), for an item id with an entry
vid_vels(entries, vid) ==
    FDivNat(SumWv(entries, vid, Len(entries)),
            Cardinality({i \in 1..Len(entries) : entries[i].vid = vid}))

\* A variant in which no store counts as having sales
stores_with_sales_None(entries) == {}

stores_with_sales(entries) == {entries[i].s : i \in 1..Len(entries)}

\* One iteration of the loop over inv_map: the product row of a merged
\* inventory row (the fields wv, oh, par, oq and cogs of the row)
product(inv, entries, wos_target, days) ==
    LET weeks == FDivNat(FromNat(days), 7)
        sd == sales_map(entries, inv.s, inv.vid)
        q == IF sd # 0 THEN FromNat(entries[sd].q) ELSE FZero
        wv == IF sd # 0 THEN entries[sd].wv ELSE FZero
        tc == IF sd # 0 THEN entries[sd].tc ELSE FZero
        fallback == /\ q = FZero
                    /\ inv.s \notin stores_with_sales(entries)
                    /\ \E i \in 1..Len(entries) : entries[i].vid = inv.vid
        override_uc == get_cogs_override(inv.b, inv.cat)
    IN  The({The({[s |-> inv.s, vid |-> inv.vid, wv |-> Round2(vel),
                   oh |-> inv.oh, par |-> par, oq |-> Max(par - inv.oh, 0),
                   cogs |-> Round2(tc_sold)] :
                     tc_sold \in {IF override_uc # NoOverride /\ sold # FZero
                                  THEN Round2(FMul(sold, FromCents(override_uc)))
                                  ELSE tc},
                     par \in {IF vel # FZero
                              THEN ToUnits(FMul(vel, FDivNat(FromNat(wos_target), 10)))
                              ELSE 0}}) :
                vel \in {IF fallback THEN vid_vels(entries, inv.vid) ELSE wv},
                sold \in {IF fallback
                          THEN FMul(vid_vels(entries, inv.vid), weeks)
                          ELSE q}})

RECURSIVE products(_, _, _, _, _)
\* The list products after the rows 1..n of inv_map
products(im, entries, wos_target, days, n) ==
    IF n = 0 THEN <<>>
    ELSE Append(products(im, entries, wos_target, days, n - 1),
                product(im[n], entries, wos_target, days))

RECURSIVE SumCogs(_, _, _)
\* store_totals_adj[sn]["tc"] after the product rows 1..n: 0, then
\* += p["cogs"] for each row of the store
SumCogs(pd, sn, n) ==
    IF n = 0 THEN FZero
    ELSE IF pd[n].s = sn THEN FAdd(SumCogs(pd, sn, n - 1), pd[n].cogs)
    ELSE SumCogs(pd, sn, n - 1)

\* store_totals_adj: per store of the product rows, nr taken over from
\* store_totals (0 for a store without totals) and tc recomputed from the rows
store_totals_adj(pd, store_totals) ==
    [sn \in {pd[i].s : i \in 1..Len(pd)} |->
        [nr |-> IF sn \in DOMAIN store_totals THEN store_totals[sn].nr ELSE FZero,
         tc |-> SumCogs(pd, sn, Len(pd))]]

RECURSIVE StoreOrder(_, _)
\* The stores of the product rows 1..n in the order of their first occurrence:
\* the insertion order of store_totals_adj
StoreOrder(pd, n) ==
    IF n = 0 THEN <<>>
    ELSE LET o == StoreOrder(pd, n - 1)
         IN  IF \E i \in 1..Len(o) : o[i] = pd[n].s THEN o ELSE Append(o, pd[n].s)

RECURSIVE SumField(_, _, _, _)
\* sum(s.get(field, 0) for s in store_totals_adj.values()) over the first n
\* stores of the insertion order
SumField(adj, order, field, n) ==
    IF n = 0 THEN FZero
    ELSE FAdd(SumField(adj, order, field, n - 1), adj[order[n]][field])

RECURSIVE Sorted(_)
\* sorted(S) of a set of stores
Sorted(S) ==
    IF S = {} THEN <<>>
    ELSE LET m == CHOOSE x \in S : \A y \in S : x <= y
         IN  <<m>> \o Sorted(S \ {m})

\* run_taps(inventory, sales, store_totals, wos_target, days) on the rows
\* inv_rows and the entries of sales, with inv_ts and
\* sales_meta the values its two redis_get calls return.  Of the snapshot, st
\* holds net_revenue, cogs, total_products, inventory_ts and sales_ts, a row
\* of ss holds s, rev, cogs and products, and a row of pd is as in product.
run_taps_full(inv_rows, entries, store_totals, wos_target, days, inv_ts, sales_meta) ==
    IF inv_rows = <<>> THEN [st |-> <<>>, ss |-> <<>>, pd |-> <<>>]
    ELSE The({The({LET order == StoreOrder(pd, Len(pd))
                       tnr == SumField(adj, order, "nr", Len(order))
                       ttc == SumField(adj, order, "tc", Len(order))
                       sns == Sorted(DOMAIN adj)
                   IN  [st |-> [net_revenue |-> Round2(tnr),
                                cogs |-> Round2(ttc),
                                total_products |-> Len(pd),
                                inventory_ts |-> inv_ts,
                                sales_ts |-> IF sales_meta # NoMeta
                                             THEN sales_meta.ts
                                             ELSE NoneV],
                        ss |-> [j \in 1..Len(sns) |->
                                   [s |-> sns[j],
                                    rev |-> ToUnits(adj[sns[j]].nr),
                                    cogs |-> ToUnits(adj[sns[j]].tc),
                                    products |->
                                        Cardinality({i \in 1..Len(pd) :
                                                       pd[i].s = sns[j]})]],
                        pd |-> pd] :
                      adj \in {store_totals_adj(pd, store_totals)}}) :
                 pd \in {The({products(im, entries, wos_target, days, Len(im)) :
                                 im \in {inv_map(inv_rows, Len(inv_rows))}})}})

\* The arguments of the engine: inventory rows of one item at three stores
\* and a second item at store 3, every row with 5 units on hand; sales
\* entries aggregated over 7 days (weeks = 1.0, so wv = float(q)) with their
\* cost tc in hundredths; store_totals with a revenue and a cost per store
InvRows(b) ==
    <<[s |-> 1, vid |-> 1, b |-> b, cat |-> "Carts", oh |-> 5],
      [s |-> 2, vid |-> 1, b |-> b, cat |-> "Carts", oh |-> 5],
      [s |-> 3, vid |-> 1, b |-> b, cat |-> "Carts", oh |-> 5],
      [s |-> 3, vid |-> 2, b |-> "House", cat |-> "Carts", oh |-> 5]>>
SalesEntries ==
    <<[s |-> 1, vid |-> 1, q |-> 10, wv |-> FromNat(10), tc |-> FromCents(40)],
      [s |-> 2, vid |-> 1, q |-> 4, wv |-> FromNat(4), tc |-> FromCents(40)],
      [s |-> 3, vid |-> 2, q |-> 2, wv |-> FromNat(2), tc |-> FromCents(75)],
      [s |-> 3, vid |-> 1, q |-> 1, wv |-> FromNat(1), tc |-> FromCents(35)]>>
TotalsCosts == {0, 999}

RECURSIVE Pick(_, _, _)
\* The elements of a sequence whose index up to n is in K, in their order
Pick(seq, K, n) ==
    IF n = 0 THEN <<>>
    ELSE IF n \in K THEN Append(Pick(seq, K, n - 1), seq[n])
    ELSE Pick(seq, K, n - 1)

EngineInputs ==
    {[inventory |-> Pick(InvRows(b), K, 4),
      sales |-> Pick(SalesEntries, J, 4),
      store_totals |-> [sn \in Stores |-> [nr |-> FromCents(2000),
                                           tc |-> FromCents(t)]],
      wos_target |-> w, days |-> d] :
        K \in SUBSET (1..4), J \in SUBSET (1..4), b \in Brands,
        t \in TotalsCosts, w \in {WOS_DEFAULT}, d \in DaysValues}

\* What the cache holds under taps:inventory_ts and taps:sales_meta at the
\* time of a call: the stamp of the k-th pull_inventory, and the meta of the
\* rebuild that followed it (none before the first rebuild has finished)
Stamps == 1..MaxStamp
CacheStates ==
    {[inventory_ts |-> k,
      sales_meta |-> IF k = 1 THEN NoMeta ELSE [ts |-> k]] : k \in Stamps}

\* ------------------------------------------------------------ initial state
InitPipeline ==
    /\ lock = NoLock
    /\ locations = FALSE
    /\ inventory = NoInv
    /\ sales = NoneV
    /\ totals = NoneV
    /\ dashboard = NoSnap
    /\ cursor = [l \in Locs |-> NoCursor]
    /\ progress = "none"
    /\ up = [l \in Locs |-> 0]
    /\ pc = [t \in Tasks |-> "idle"]
    /\ kind = [t \in Tasks |-> "safe"]
    /\ tdays = [t \in Tasks |-> DAYS_DEFAULT]
    /\ tincr = [t \in Tasks |-> TRUE]
    /\ acquired = [t \in Tasks |-> FALSE]
    /\ dirty = [t \in Tasks |-> FALSE]
    /\ result = [t \in Tasks |-> "none"]
    /\ wrote = [t \in Tasks |-> FALSE]
    /\ tinv = [t \in Tasks |-> NoInv]
    /\ li = [t \in Tasks |-> 0]
    /\ last = [t \in Tasks |-> NoCursor]
    /\ items = [t \in Tasks |-> EmptyAgg]
    /\ ffail = [t \in Tasks |-> {}]
    /\ agg = [t \in Tasks |-> NoneV]
    /\ st = [t \in Tasks |-> NoneV]
    /\ rpc = "idle"
    /\ rwos = WOS_DEFAULT
    /\ rdays = DAYS_DEFAULT
    /\ rval = NoSnap
    /\ rpath = "none"

\* No supplier learned, no pull_inventory in flight
InitSupplier ==
    /\ supplier_map = NoSups
    /\ ipc = [c \in Pulls |-> "idle"]
    /\ irows = [c \in Pulls |-> NoSups]
    /\ imap = [c \in Pulls |-> NoSups]
    /\ iout = [c \in Pulls |-> NoSups]
    /\ learned = NoSups
    /\ after = [c \in Pulls |-> NoSups]

\* aggregate_sales not called
InitAggregator ==
    /\ raw_items = <<>>
    /\ agg_out = NoneV

\* run_taps_full not called
InitEngine ==
    /\ eng_in = NoneV
    /\ eng_out = NoneV

Init ==
    /\ InitPipeline
    /\ InitSupplier
    /\ InitAggregator
    /\ InitEngine


\* ------------------------------------------------------------ helpers
IdleTasks == {t \in Tasks : pc[t] = "idle"}
\* The task slot a newly scheduled background task takes
FirstIdle == CHOOSE t \in IdleTasks : \A u \in IdleTasks : t <= u

\* Executions of the do_rebuild body
InPipeline(t) ==
    pc[t] \in {"inv", "sales", "fetch", "setc", "collect", "finraw", "findash"}

\* Where a task goes when do_rebuild has returned or raised
ExitPc(t) == IF kind[t] = "locked" THEN "relget" ELSE "done"

\* WATCH: a modification of the lock key marks every pending transaction dirty
Touched == [u \in Tasks |-> IF pc[u] = "relexec" THEN TRUE ELSE dirty[u]]

Schedule(t, k, d, inc, first) ==
    /\ pc' = [pc EXCEPT ![t] = first]
    /\ kind' = [kind EXCEPT ![t] = k]
    /\ tdays' = [tdays EXCEPT ![t] = d]
    /\ tincr' = [tincr EXCEPT ![t] = inc]
    /\ UNCHANGED <<acquired, dirty, result, wrote, fetchVars>>

\* ------------------------------------------------------------ endpoints
\* POST /internal/rebuild-cache
rebuild_cache(d, inc) ==
    /\ IdleTasks # {}
    /\ IF lock # NoLock
       THEN UNCHANGED taskVars
       ELSE Schedule(FirstIdle, "locked", d, inc, "acquire")
    /\ UNCHANGED <<cacheVars, up, readVars>>
    /\ UNCHANGED detailVars

\* POST /api/refresh-sales
refresh_sales(d) ==
    /\ IdleTasks # {}
    /\ Schedule(FirstIdle, "safe", d, FALSE, "inv")
    /\ UNCHANGED <<cacheVars, up, readVars>>
    /\ UNCHANGED detailVars

\* POST /api/refresh-sales-quick
refresh_sales_quick ==
    /\ IdleTasks # {}
    /\ Schedule(FirstIdle, "safe", DAYS_DEFAULT, TRUE, "inv")
    /\ UNCHANGED <<cacheVars, up, readVars>>
    /\ UNCHANGED detailVars

\* ------------------------------------------------------------ the lock
\* Variant of the acquisition: a plain SET, without NX
AcquireLock_NoNX(t) ==
    /\ pc[t] = "acquire"
    /\ lock' = t
    /\ acquired' = [acquired EXCEPT ![t] = TRUE]
    /\ dirty' = Touched
    /\ pc' = [pc EXCEPT ![t] = "inv"]
    /\ UNCHANGED result
    /\ UNCHANGED <<locations, inventory, sales, totals, dashboard, cursor, progress>>
    /\ UNCHANGED <<kind, tdays, tincr, wrote, fetchVars, up, readVars>>
    /\ UNCHANGED detailVars

\* rebuild_lock, entry: SET LOCK_KEY lock_id NX EX ttl
AcquireLock(t) ==
    /\ pc[t] = "acquire"
    /\ IF lock = NoLock
       THEN /\ lock' = t
            /\ acquired' = [acquired EXCEPT ![t] = TRUE]
            /\ dirty' = Touched
            /\ pc' = [pc EXCEPT ![t] = "inv"]
            /\ UNCHANGED result
       ELSE /\ pc' = [pc EXCEPT ![t] = "done"]
            /\ result' = [result EXCEPT ![t] = "notacquired"]
            /\ UNCHANGED <<lock, acquired, dirty>>
    /\ UNCHANGED <<locations, inventory, sales, totals, dashboard, cursor, progress>>
    /\ UNCHANGED <<kind, tdays, tincr, wrote, fetchVars, up, readVars>>
    /\ UNCHANGED detailVars

\* Variant of the expiry: the key was SET without EX and never expires
LockExpire_NoTTL ==
    /\ lock # NoLock
    /\ FALSE
    /\ UNCHANGED vars

\* The lock key reaches its TTL.  Whether the expiry of a key invalidates a
\* WATCH on it depends on the Redis version.
LockExpire ==
    /\ lock # NoLock
    /\ lock' = NoLock
    /\ \E touch \in BOOLEAN : dirty' = IF touch THEN Touched ELSE dirty
    /\ UNCHANGED <<locations, inventory, sales, totals, dashboard, cursor, progress>>
    /\ UNCHANGED <<pc, kind, tdays, tincr, acquired, result, wrote, fetchVars>>
    /\ UNCHANGED <<up, readVars>>
    /\ UNCHANGED detailVars

\* rebuild_lock, finally: WATCH LOCK_KEY; GET LOCK_KEY
ReleaseWatchGet(t) ==
    /\ pc[t] = "relget"
    /\ IF acquired[t] /\ lock = t
       THEN /\ pc' = [pc EXCEPT ![t] = "relexec"]
            /\ dirty' = [dirty EXCEPT ![t] = FALSE]
       ELSE /\ pc' = [pc EXCEPT ![t] = "done"]
            /\ UNCHANGED dirty
    /\ UNCHANGED <<cacheVars, up, readVars>>
    /\ UNCHANGED <<kind, tdays, tincr, acquired, result, wrote, fetchVars>>
    /\ UNCHANGED detailVars

\* Variant of the release: GET, then DEL with no WATCH on the key
ReleaseExec_NoWatch(t) ==
    /\ pc[t] = "relexec"
    /\ lock' = NoLock
    /\ dirty' = [u \in Tasks |->
                  IF u # t /\ pc[u] = "relexec" /\ lock # NoLock
                  THEN TRUE ELSE dirty[u]]
    /\ pc' = [pc EXCEPT ![t] = "done"]
    /\ UNCHANGED <<locations, inventory, sales, totals, dashboard, cursor, progress>>
    /\ UNCHANGED <<kind, tdays, tincr, acquired, result, wrote, fetchVars>>
    /\ UNCHANGED <<up, readVars>>
    /\ UNCHANGED detailVars

\* rebuild_lock, finally: MULTI; DEL LOCK_KEY; EXEC (aborted with WatchError,
\* which is caught, when the watched key was modified)
ReleaseExec(t) ==
    /\ pc[t] = "relexec"
    /\ IF dirty[t]
       THEN UNCHANGED <<lock, dirty>>
       ELSE /\ lock' = NoLock
            /\ dirty' = [u \in Tasks |->
                          IF u # t /\ pc[u] = "relexec" /\ lock # NoLock
                          THEN TRUE ELSE dirty[u]]
    /\ pc' = [pc EXCEPT ![t] = "done"]
    /\ UNCHANGED <<locations, inventory, sales, totals, dashboard, cursor, progress>>
    /\ UNCHANGED <<kind, tdays, tincr, acquired, result, wrote, fetchVars>>
    /\ UNCHANGED <<up, readVars>>
    /\ UNCHANGED detailVars

\* The background task has ended; its slot is free for the next one
TaskReturn(t) ==
    /\ pc[t] = "done"
    /\ pc' = [pc EXCEPT ![t] = "idle"]
    /\ kind' = [kind EXCEPT ![t] = "safe"]
    /\ tdays' = [tdays EXCEPT ![t] = DAYS_DEFAULT]
    /\ tincr' = [tincr EXCEPT ![t] = TRUE]
    /\ acquired' = [acquired EXCEPT ![t] = FALSE]
    /\ dirty' = [dirty EXCEPT ![t] = FALSE]
    /\ result' = [result EXCEPT ![t] = "none"]
    /\ wrote' = [wrote EXCEPT ![t] = FALSE]
    /\ UNCHANGED <<fetchVars, cacheVars, up, readVars>>
    /\ UNCHANGED detailVars


\* ------------------------------------------------------------ do_rebuild
\* The locals of do_rebuild are dropped when it returns or raises
DropLocals(t) ==
    /\ tinv' = [tinv EXCEPT ![t] = NoInv]
    /\ li' = [li EXCEPT ![t] = 0]
    /\ last' = [last EXCEPT ![t] = NoCursor]
    /\ items' = [items EXCEPT ![t] = EmptyAgg]
    /\ ffail' = [ffail EXCEPT ![t] = {}]
    /\ agg' = [agg EXCEPT ![t] = NoneV]
    /\ st' = [st EXCEPT ![t] = NoneV]
    /\ tdays' = [tdays EXCEPT ![t] = DAYS_DEFAULT]
    /\ tincr' = [tincr EXCEPT ![t] = TRUE]

\* Variant of the abort: return False without _clear_progress
Abort_KeepProgress(t) ==
    /\ progress' = "inventory"
    /\ result' = [result EXCEPT ![t] = "aborted"]
    /\ pc' = [pc EXCEPT ![t] = ExitPc(t)]
    /\ DropLocals(t)

\* do_rebuild returns False: _clear_progress, then the task leaves the pipeline
Abort(t) ==
    /\ progress' = "none"
    /\ result' = [result EXCEPT ![t] = "aborted"]
    /\ pc' = [pc EXCEPT ![t] = ExitPc(t)]
    /\ DropLocals(t)

\* do_rebuild entry and phase 1: the progress marker, pull_inventory and the
\* test of its result.
\*   locsOk : get_locations found the list (cached, or fetched and cached now)
\*   v      : NoInv: the inventory request failed; EmptyInv: every row was
\*            filtered out; otherwise the inventory the upstream holds
PullInventoryWith(t, locsOk, v) ==
    /\ pc[t] = "inv"
    /\ locations => locsOk
    /\ locations' = (locations \/ locsOk)
    /\ inventory' = IF locsOk /\ v # NoInv THEN v ELSE inventory
    /\ IF locsOk /\ InvTruthy(v)
       THEN /\ tinv' = [tinv EXCEPT ![t] = v]
            /\ pc' = [pc EXCEPT ![t] = "sales"]
            /\ progress' = "inventory"
            /\ UNCHANGED <<result, li, last, items, ffail, agg, st, tdays, tincr>>
       ELSE Abort(t)
    /\ wrote' = [wrote EXCEPT ![t] = TRUE]
    /\ UNCHANGED <<lock, sales, totals, dashboard, cursor>>
    /\ UNCHANGED <<kind, acquired, dirty, up, readVars>>
    /\ UNCHANGED detailVars

\* Without the location list no inventory is fetched: that case is taken
\* with one value of v
PullInventory(t) ==
    /\ pc[t] = "inv"
    /\ \E locsOk \in BOOLEAN, v \in {NoInv, EmptyInv} \cup (1..MaxInv) :
          /\ ~locsOk => v = NoInv
          /\ PullInventoryWith(t, locsOk, v)

\* Phase 2, pull_sales_all entry: get_locations; without locations it returns
\* ([], {}) at once, otherwise it writes the progress marker and starts the pool
PullSalesBeginWith(t, locsOk) ==
    /\ pc[t] = "sales"
    /\ locations => locsOk
    /\ IF ~locsOk
       THEN /\ agg' = [agg EXCEPT ![t] = EmptyAgg]
            /\ st' = [st EXCEPT ![t] = EmptyAgg]
            /\ pc' = [pc EXCEPT ![t] = "finraw"]
            /\ UNCHANGED <<locations, progress, li>>
       ELSE /\ locations' = TRUE
            /\ progress' = "sales"
            /\ li' = [li EXCEPT ![t] = 1]
            /\ pc' = [pc EXCEPT ![t] = "fetch"]
            /\ UNCHANGED <<agg, st>>
    /\ UNCHANGED <<lock, inventory, sales, totals, dashboard, cursor>>
    /\ UNCHANGED <<kind, tdays, tincr, acquired, dirty, result, wrote>>
    /\ UNCHANGED <<tinv, last, items, ffail, up, readVars>>
    /\ UNCHANGED detailVars

PullSalesBegin(t) == \E locsOk \in BOOLEAN : PullSalesBeginWith(t, locsOk)

\* pull_store_sales(loc, start, end, cursor_after): <<number of line items,
\* last_created>>.
\*   use   : cursor_after (NoCursor: the full window)
\*   n     : the orders upstream
\*   first : the first request (page_size 1) succeeded
\*   pages : the number of pages read before a page request failed
pull_store_sales(use, n, first, pages) ==
    LET total == n - use
        got == IF pages * PAGE_SIZE < total THEN pages * PAGE_SIZE ELSE total
    IN  IF ~first THEN <<0, NoCursor>>
        ELSE IF total = 0 THEN <<0, use>>
        ELSE <<got, IF got > 0 THEN Max(use, use + got) ELSE use>>

\* The next location, or the end of the pool
Advance(t) ==
    /\ li' = [li EXCEPT ![t] = IF li[t] < NumLocs THEN li[t] + 1 ELSE 0]
    /\ pc' = [pc EXCEPT ![t] = IF li[t] < NumLocs THEN "fetch" ELSE "collect"]

\* Variant of the staleness test: a cursor of up to 4 days is used
use_cursor_Late(c, incr, age) ==
    LET got == IF incr THEN c ELSE NoCursor
    IN  IF got # NoCursor /\ incr /\ age <= STALE_DAYS + 1 THEN got ELSE NoCursor

\* pull_one: the cursor handed to pull_store_sales.
\*   c    : the stored cursor (NoCursor: none)
\*   incr : the incremental flag of the rebuild
\*   age  : the age in days of the cursor's date on the day of the sync
use_cursor(c, incr, age) ==
    LET got == IF incr THEN c ELSE NoCursor
    IN  IF got # NoCursor /\ incr /\ age <= STALE_DAYS THEN got ELSE NoCursor

\* pull_one up to the return of pull_store_sales.
\*   age    : the age of the stored cursor (the clock is not modelled)
\*   raises : pull_one raises; the future's exception is logged and skipped
PullOneWith(t, age, raises, first, pages) ==
    /\ pc[t] = "fetch"
    /\ LET l == li[t]
           use == use_cursor(cursor[l], tincr[t], age)
           r == pull_store_sales(use, up[l], first, pages)
           failed == raises \/ ~first \/ (r[1] = 0 /\ up[l] - use > 0)
       IN  /\ ffail' = [ffail EXCEPT ![t] = IF failed THEN @ \cup {l} ELSE @]
           /\ IF raises
              THEN /\ Advance(t)
                   /\ UNCHANGED <<items, last>>
              ELSE /\ items' = [items EXCEPT ![t][l] = r[1]]
                   /\ IF r[2] # NoCursor
                      THEN /\ last' = [last EXCEPT ![t] = r[2]]
                           /\ pc' = [pc EXCEPT ![t] = "setc"]
                           /\ UNCHANGED li
                      ELSE /\ Advance(t)
                           /\ UNCHANGED last
    /\ UNCHANGED <<cacheVars, up, readVars>>
    /\ UNCHANGED <<kind, tdays, tincr, acquired, dirty, result, wrote, tinv, agg, st>>
    /\ UNCHANGED detailVars

\* A pull that raises, or whose first request fails, ends the same way for
\* every cursor age and every number of pages, and so does, for every age, a
\* pull that reads no stored cursor: these are taken with one of each
PullOne(t) ==
    /\ pc[t] = "fetch"
    /\ \E age \in Ages, raises \in BOOLEAN, first \in BOOLEAN, pages \in 0..MaxOrders :
          /\ raises => first
          /\ (raises \/ ~first) => (age = STALE_DAYS /\ pages = 0)
          /\ (~tincr[t] \/ cursor[li[t]] = NoCursor) => age = STALE_DAYS
          /\ PullOneWith(t, age, raises, first, pages)

\* pull_one: set_cursor(loc_id, last_created)
set_cursor(t) ==
    /\ pc[t] = "setc"
    /\ cursor' = [cursor EXCEPT ![li[t]] = last[t]]
    /\ last' = [last EXCEPT ![t] = NoCursor]
    /\ Advance(t)
    /\ wrote' = [wrote EXCEPT ![t] = TRUE]
    /\ UNCHANGED <<lock, locations, inventory, sales, totals, dashboard, progress>>
    /\ UNCHANGED <<kind, tdays, tincr, acquired, dirty, result>>
    /\ UNCHANGED <<tinv, items, ffail, agg, st, up, readVars>>
    /\ UNCHANGED detailVars

\* pull_sales_all, after the pool: the existing aggregate when nothing was
\* fetched, otherwise the aggregate of the fetched items
Collect(t) ==
    /\ pc[t] = "collect"
    /\ IF items[t] = EmptyAgg
       THEN IF Truthy(sales)
            THEN /\ agg' = [agg EXCEPT ![t] = sales]
                 /\ st' = [st EXCEPT ![t] = IF Truthy(totals) THEN totals ELSE EmptyAgg]
            ELSE /\ agg' = [agg EXCEPT ![t] = EmptyAgg]
                 /\ st' = [st EXCEPT ![t] = EmptyAgg]
       ELSE /\ agg' = [agg EXCEPT ![t] = aggregate_sales(items[t]).a]
            /\ st' = [st EXCEPT ![t] = aggregate_sales(items[t]).s]
    /\ pc' = [pc EXCEPT ![t] = "finraw"]
    /\ UNCHANGED <<cacheVars, up, readVars>>
    /\ UNCHANGED <<kind, tdays, tincr, acquired, dirty, result, wrote>>
    /\ UNCHANGED <<tinv, li, last, items, ffail>>
    /\ UNCHANGED detailVars

\* Phase 3: the progress marker, redis_set("taps:sales", sales_agg) and
\* redis_set("taps:sales_store_totals", store_totals)
FinRaw(t) ==
    /\ pc[t] = "finraw"
    /\ progress' = "finalizing"
    /\ sales' = agg[t]
    /\ totals' = st[t]
    /\ items' = [items EXCEPT ![t] = EmptyAgg]
    /\ ffail' = [ffail EXCEPT ![t] = {}]
    /\ pc' = [pc EXCEPT ![t] = "findash"]
    /\ UNCHANGED <<lock, locations, inventory, dashboard, cursor>>
    /\ UNCHANGED <<kind, tdays, tincr, acquired, dirty, result, wrote>>
    /\ UNCHANGED <<tinv, li, last, agg, st, up, readVars>>
    /\ UNCHANGED detailVars

\* run_taps with the default target, redis_set("taps:dashboard", result),
\* _clear_progress, return True
FinDash(t) ==
    /\ pc[t] = "findash"
    /\ dashboard' = run_taps(tinv[t], agg[t], st[t], WOS_DEFAULT, tdays[t])
    /\ progress' = "none"
    /\ result' = [result EXCEPT ![t] = "ok"]
    /\ pc' = [pc EXCEPT ![t] = ExitPc(t)]
    /\ DropLocals(t)
    /\ UNCHANGED <<lock, locations, inventory, sales, totals, cursor>>
    /\ UNCHANGED <<kind, acquired, dirty, wrote, up, readVars>>
    /\ UNCHANGED detailVars

\* Variant of the exception path: the release sits after the with body
\* instead of in a finally clause, so an exception skips it
Raise_NoFinally(t) ==
    /\ pc[t] \in {"inv", "sales", "finraw", "findash"}
    /\ progress' = IF pc[t] = "inv" THEN "inventory" ELSE progress
    /\ result' = [result EXCEPT ![t] = "failed"]
    /\ pc' = [pc EXCEPT ![t] = "done"]
    /\ DropLocals(t)
    /\ wrote' = [wrote EXCEPT ![t] = TRUE]
    /\ UNCHANGED <<lock, locations, inventory, sales, totals, dashboard, cursor>>
    /\ UNCHANGED <<kind, acquired, dirty, up, readVars>>
    /\ UNCHANGED detailVars

\* An exception raised inside do_rebuild (missing credentials in fh_headers,
\* a Redis error in rdb.set, a malformed row in run_taps) is caught and logged
\* by _bg_rebuild_locked / _bg_rebuild_safe; the with block then ends.
Raise(t) ==
    /\ pc[t] \in {"inv", "sales", "finraw", "findash"}
    /\ progress' = IF pc[t] = "inv" THEN "inventory" ELSE progress
    /\ result' = [result EXCEPT ![t] = "failed"]
    /\ pc' = [pc EXCEPT ![t] = ExitPc(t)]
    /\ DropLocals(t)
    /\ wrote' = [wrote EXCEPT ![t] = TRUE]
    /\ UNCHANGED <<lock, locations, inventory, sales, totals, dashboard, cursor>>
    /\ UNCHANGED <<kind, acquired, dirty, up, readVars>>
    /\ UNCHANGED detailVars

\* ------------------------------------------------------------ GET /api/taps
\* rwos, rdays : the query parameters of the request being served
\* rval        : the cached snapshot, then the computed one, then the response
\* rpath       : the return statement that produced the response: "cached"
\*               (return cached), "inline" (return run_taps(...) beside a
\*               cached snapshot), "synth" (return result after the
\*               redis_set), "warming", "error404" (HTTPException)

\* Variant of the read: the cached snapshot is served only while no rebuild
\* runs; otherwise the request goes on as if nothing were cached
GetTapsStart_Revalidate(w, d) ==
    /\ rpc = "idle"
    /\ rwos' = w
    /\ rdays' = d
    /\ rval' = dashboard
    /\ IF dashboard # NoSnap /\ w = WOS_DEFAULT /\ \A t \in Tasks : ~InPipeline(t)
       THEN rpc' = "ret" /\ rpath' = "cached"
       ELSE /\ rpc' = IF dashboard # NoSnap /\ w # WOS_DEFAULT THEN "hitraw" ELSE "missraw"
            /\ UNCHANGED rpath
    /\ UNCHANGED <<cacheVars, up, taskVars>>
    /\ UNCHANGED detailVars

\* get_taps: redis_get("taps:dashboard") and the test of wos
GetTapsStart(w, d) ==
    /\ rpc = "idle"
    /\ rwos' = w
    /\ rdays' = d
    /\ rval' = dashboard
    /\ IF dashboard # NoSnap /\ w = WOS_DEFAULT
       THEN rpc' = "ret" /\ rpath' = "cached"
       ELSE /\ rpc' = IF dashboard # NoSnap THEN "hitraw" ELSE "missraw"
            /\ UNCHANGED rpath
    /\ UNCHANGED <<cacheVars, up, taskVars>>
    /\ UNCHANGED detailVars

\* get_taps, cached and wos given: recompute inline when the raw data is there
GetTapsHitRaw ==
    /\ rpc = "hitraw"
    /\ IF InvTruthy(inventory) /\ sales # NoneV
       THEN /\ rval' = run_taps(inventory, sales,
                                IF Truthy(totals) THEN totals ELSE EmptyAgg, rwos, rdays)
            /\ rpath' = "inline"
       ELSE /\ rpath' = "cached"
            /\ UNCHANGED rval
    /\ rpc' = "ret"
    /\ UNCHANGED <<rwos, rdays, cacheVars, up, taskVars>>
    /\ UNCHANGED detailVars

\* get_taps, no snapshot cached: synthesize from the raw data, or answer
\* "warming" and add _bg_rebuild_safe(days) to the background tasks
GetTapsMissRaw ==
    /\ rpc = "missraw"
    /\ IF InvTruthy(inventory) /\ Truthy(sales)
       THEN /\ rval' = run_taps(inventory, sales,
                                IF Truthy(totals) THEN totals ELSE EmptyAgg, rwos, rdays)
            /\ rpc' = "write"
            /\ UNCHANGED <<rpath, taskVars>>
       ELSE /\ IdleTasks # {}
            /\ Schedule(FirstIdle, "safe", rdays, TRUE, "inv")
            /\ rval' = Warming
            /\ rpath' = "warming"
            /\ rpc' = "ret"
    /\ UNCHANGED <<rwos, rdays, cacheVars, up>>
    /\ UNCHANGED detailVars

\* get_taps: redis_set("taps:dashboard", result); return result
GetTapsWrite ==
    /\ rpc = "write"
    /\ dashboard' = rval
    /\ rpc' = "ret"
    /\ rpath' = "synth"
    /\ UNCHANGED <<lock, locations, inventory, sales, totals, cursor, progress>>
    /\ UNCHANGED <<rwos, rdays, rval, up, taskVars>>
    /\ UNCHANGED detailVars

\* GET /api/taps/cached: the cached snapshot, or HTTPException(404)
get_taps_cached ==
    /\ rpc = "idle"
    /\ rval' = dashboard
    /\ rpath' = IF dashboard # NoSnap THEN "cached" ELSE "error404"
    /\ rpc' = "ret"
    /\ UNCHANGED <<rwos, rdays, cacheVars, up, taskVars>>
    /\ UNCHANGED detailVars

\* The response has been sent
GetTapsReturn ==
    /\ rpc = "ret"
    /\ rpc' = "idle"
    /\ rwos' = WOS_DEFAULT
    /\ rdays' = DAYS_DEFAULT
    /\ rval' = NoSnap
    /\ rpath' = "none"
    /\ UNCHANGED <<cacheVars, up, taskVars>>
    /\ UNCHANGED detailVars

\* ------------------------------------------------------------ pull_inventory
\* The supplier memory of pull_inventory, statement by statement.  An
\* execution c is started by do_rebuild or by the background task of
\* GET /api/inventory.  The upstream holds one row per item id; the row carries
\* a supplier name or omits it (NoSup).  A map entry NoSup stands for a missing
\* key.
\*   irows[c] : the supplier field of the fetched rows
\*   imap[c]  : the local sup_map
\*   iout[c]  : the "sup" field of the inventory entries being built
\* History variables, read by no action:
\*   learned  : per item id, the supplier last stored by a pull whose row had it
\*   after[c] : learned at the time execution c started

\* get_locations and fh_get("/v0/inventory") succeed
InvFetch(c, rows) ==
    /\ ipc[c] = "idle"
    /\ irows' = [irows EXCEPT ![c] = rows]
    /\ after' = [after EXCEPT ![c] = learned]
    /\ ipc' = [ipc EXCEPT ![c] = "rows"]
    /\ UNCHANGED <<supplier_map, imap, iout, learned>>
    /\ UNCHANGED <<pipeVars, pureVars>>

\* sup_map = redis_get("taps:supplier_map") or {} and the loop over the rows:
\* a row with a supplier stores it in sup_map, a row without one takes the
\* entry of sup_map
InvLoop(c) ==
    /\ ipc[c] = "rows"
    /\ imap' = [imap EXCEPT ![c] =
                  [v \in Vids |-> IF irows[c][v] # NoSup THEN irows[c][v]
                                  ELSE supplier_map[v]]]
    /\ iout' = [iout EXCEPT ![c] =
                  [v \in Vids |-> IF irows[c][v] # NoSup THEN irows[c][v]
                                  ELSE supplier_map[v]]]
    /\ ipc' = [ipc EXCEPT ![c] = "set"]
    /\ UNCHANGED <<supplier_map, irows, learned, after>>
    /\ UNCHANGED <<pipeVars, pureVars>>

\* redis_set("taps:inventory", ...), redis_set("taps:inventory_ts", ...),
\* redis_set("taps:supplier_map", sup_map); return inventory
InvStore(c) ==
    /\ ipc[c] = "set"
    /\ supplier_map' = imap[c]
    /\ learned' = [v \in Vids |-> IF irows[c][v] # NoSup THEN irows[c][v]
                                   ELSE learned[v]]
    /\ ipc' = [ipc EXCEPT ![c] = "idle"]
    /\ irows' = [irows EXCEPT ![c] = NoSups]
    /\ imap' = [imap EXCEPT ![c] = NoSups]
    /\ iout' = [iout EXCEPT ![c] = NoSups]
    /\ after' = [after EXCEPT ![c] = NoSups]
    /\ UNCHANGED <<pipeVars, pureVars>>

\* ------------------------------------------------------------ environment
\* A new order of location l becomes visible upstream
NewOrder(l) ==
    /\ SumOver(up) < MaxOrders
    /\ up' = [up EXCEPT ![l] = @ + 1]
    /\ UNCHANGED <<cacheVars, taskVars, readVars>>
    /\ UNCHANGED detailVars

\* TAPS_CACHE_TTL runs out
DashboardExpire ==
    /\ dashboard # NoSnap
    /\ dashboard' = NoSnap
    /\ UNCHANGED <<lock, locations, inventory, sales, totals, cursor, progress>>
    /\ UNCHANGED <<up, taskVars, readVars>>
    /\ UNCHANGED detailVars

\* INVENTORY_CACHE_TTL runs out
InventoryExpire ==
    /\ inventory # NoInv
    /\ inventory' = NoInv
    /\ UNCHANGED <<lock, locations, sales, totals, dashboard, cursor, progress>>
    /\ UNCHANGED <<up, taskVars, readVars>>
    /\ UNCHANGED detailVars

\* The 24 h TTL of taps:locations runs out
LocationsExpire ==
    /\ locations
    /\ locations' = FALSE
    /\ UNCHANGED <<lock, inventory, sales, totals, dashboard, cursor, progress>>
    /\ UNCHANGED <<up, taskVars, readVars>>
    /\ UNCHANGED detailVars

\* ------------------------------------------------------------ specification
\* The trigger endpoints
Triggers ==
    \/ \E d \in DaysValues, inc \in BOOLEAN : rebuild_cache(d, inc)
    \/ \E d \in DaysValues : refresh_sales(d)
    \/ refresh_sales_quick

\* The lock protocol of _bg_rebuild_locked
LockSteps ==
    \/ \E t \in Tasks : AcquireLock(t)
    \/ LockExpire
    \/ \E t \in Tasks : ReleaseWatchGet(t)
    \/ \E t \in Tasks : ReleaseExec(t)
    \/ \E t \in Tasks : TaskReturn(t)

\* The phases of do_rebuild
Pipeline ==
    \/ \E t \in Tasks : PullInventory(t)
    \/ \E t \in Tasks : PullSalesBegin(t)
    \/ \E t \in Tasks : PullOne(t)
    \/ \E t \in Tasks : Collect(t)
    \/ \E t \in Tasks : FinRaw(t)
    \/ \E t \in Tasks : FinDash(t)
    \/ \E t \in Tasks : Raise(t)

\* pull_inventory, started by do_rebuild or by GET /api/inventory
InventoryPulls ==
    \/ \E c \in Pulls, rows \in [Vids -> Suppliers \cup {NoSup}] : InvFetch(c, rows)
    \/ \E c \in Pulls : InvLoop(c)
    \/ \E c \in Pulls : InvStore(c)

\* GET /api/taps
Reads ==
    \/ \E w \in WosValues, d \in DaysValues : GetTapsStart(w, d)
    \/ GetTapsHitRaw
    \/ GetTapsMissRaw
    \/ GetTapsWrite
    \/ get_taps_cached
    \/ GetTapsReturn

Next ==
    \/ Triggers
    \/ LockSteps
    \/ Pipeline
    \/ \E t \in Tasks : set_cursor(t)
    \/ Reads
    \/ InventoryPulls
    \/ \E l \in Locs : NewOrder(l)
    \/ DashboardExpire
    \/ InventoryExpire
    \/ LocationsExpire

Spec == Init /\ [][Next]_vars

\* The lock protocol and the pipeline with an upstream that holds no orders
NextLock ==
    \/ Triggers
    \/ LockSteps
    \/ Pipeline
    \/ LocationsExpire

SpecLock == Init /\ [][NextLock]_vars


\* The sales sync of overlapping unlocked rebuilds (no lock, no reads)
NextSync ==
    \/ refresh_sales_quick
    \/ refresh_sales(DAYS_DEFAULT)
    \/ \E t \in Tasks : TaskReturn(t)
    \/ Pipeline
    \/ \E t \in Tasks : set_cursor(t)
    \/ \E l \in Locs : NewOrder(l)
    \/ LocationsExpire

SpecSync == Init /\ [][NextSync]_vars


\* The read path beside the rebuilds: a full-window rebuild is requested while
\* none runs, the read path schedules its own, the short-lived keys expire.
\* Each task slot runs one rebuild and only location 1 sells.
RefreshWhenIdle == IdleTasks = Tasks /\ refresh_sales(DAYS_DEFAULT)

NextRead ==
    \/ RefreshWhenIdle
    \/ Pipeline
    \/ \E t \in Tasks : set_cursor(t)
    \/ Reads
    \/ NewOrder(1)
    \/ DashboardExpire
    \/ InventoryExpire

SpecRead == Init /\ [][NextRead]_vars


\* The cron trigger and the lock with an upstream that holds no orders.  Redis
\* expires the key, the cron keeps calling the endpoint and a scheduled task
\* gets to its SET NX and to its end; a rebuild that holds the lock is not
\* required to take another step (it may have crashed or hang).
CronTrigger == rebuild_cache(DAYS_DEFAULT, TRUE)

NextExpire ==
    \/ CronTrigger
    \/ LockSteps
    \/ Pipeline

SpecExpire ==
    /\ Init
    /\ [][NextExpire]_vars
    /\ WF_vars(LockExpire)
    /\ WF_vars(CronTrigger)
    /\ \A t \in Tasks : WF_vars(AcquireLock(t)) /\ WF_vars(TaskReturn(t))

\* One rebuild at a time, in either mode, with every upstream outcome and a
\* cursor of any age up to MaxAge
QuickWhenIdle == IdleTasks = Tasks /\ refresh_sales_quick

\* Variant of the pool: the exception of one pull_one is not caught around
\* future.result() and ends the whole sync
PullOneAged_FailFast(t) ==
    \E age \in 0..MaxAge, raises \in BOOLEAN, first \in BOOLEAN, pages \in 0..MaxOrders :
        IF raises
        THEN /\ pc[t] = "fetch"
             /\ result' = [result EXCEPT ![t] = "failed"]
             /\ pc' = [pc EXCEPT ![t] = ExitPc(t)]
             /\ DropLocals(t)
             /\ UNCHANGED <<cacheVars, up, readVars>>
             /\ UNCHANGED <<kind, acquired, dirty, wrote>>
             /\ UNCHANGED detailVars
        ELSE PullOneWith(t, age, FALSE, first, pages)

PullOneAged(t) ==
    \E age \in 0..MaxAge, raises \in BOOLEAN, first \in BOOLEAN, pages \in 0..MaxOrders :
        PullOneWith(t, age, raises, first, pages)

NextSeq ==
    \/ RefreshWhenIdle
    \/ QuickWhenIdle
    \/ \E t \in Tasks : TaskReturn(t)
    \/ \E t \in Tasks : PullInventory(t)
    \/ \E t \in Tasks : PullSalesBegin(t)
    \/ \E t \in Tasks : PullOneAged(t)
    \/ \E t \in Tasks : set_cursor(t)
    \/ \E t \in Tasks : Collect(t)
    \/ \E t \in Tasks : FinRaw(t)
    \/ \E t \in Tasks : FinDash(t)
    \/ \E t \in Tasks : Raise(t)
    \/ \E l \in Locs : NewOrder(l)
    \/ LocationsExpire

SpecSeq == Init /\ [][NextSeq]_vars


\* Repeated rebuilds of a cold cache against an upstream that no longer
\* changes: the orders arrive before the first rebuild, every request
\* succeeds, the inventory is the same each time, one rebuild runs at a time
InitialOrder(l) ==
    /\ IdleTasks = Tasks
    /\ sales = NoneV
    /\ cursor = [k \in Locs |-> NoCursor]
    /\ NewOrder(l)

PullInventoryOk(t) == PullInventoryWith(t, TRUE, 1)

PullSalesBeginOk(t) == PullSalesBeginWith(t, TRUE)

PullOneOk(t) == \E age \in 0..MaxAge : PullOneWith(t, age, FALSE, TRUE, MaxOrders)

NextTwice ==
    \/ \E l \in Locs : InitialOrder(l)
    \/ RefreshWhenIdle
    \/ QuickWhenIdle
    \/ \E t \in Tasks : TaskReturn(t)
    \/ \E t \in Tasks : PullInventoryOk(t)
    \/ \E t \in Tasks : PullSalesBeginOk(t)
    \/ \E t \in Tasks : PullOneOk(t)
    \/ \E t \in Tasks : set_cursor(t)
    \/ \E t \in Tasks : Collect(t)
    \/ \E t \in Tasks : FinRaw(t)
    \/ \E t \in Tasks : FinDash(t)

SpecTwice == Init /\ [][NextTwice]_vars

\* The read path beside one rebuild at a time: default requests only, and a
\* request that finds neither snapshot nor raw data arrives while no rebuild
\* runs, so that the rebuild it schedules is the only one
GetTapsDefault == GetTapsStart(WOS_DEFAULT, DAYS_DEFAULT)

MissRawOneRebuild ==
    /\ IdleTasks = Tasks \/ (InvTruthy(inventory) /\ Truthy(sales))
    /\ GetTapsMissRaw

NextReadSeq ==
    \/ RefreshWhenIdle
    \/ \E t \in Tasks : TaskReturn(t)
    \/ Pipeline
    \/ \E t \in Tasks : set_cursor(t)
    \/ GetTapsDefault
    \/ MissRawOneRebuild
    \/ GetTapsWrite
    \/ GetTapsReturn
    \/ NewOrder(1)
    \/ DashboardExpire

SpecReadSeq == Init /\ [][NextReadSeq]_vars


\* Inventory pulls that overlap freely
SpecSupplier == Init /\ [][InventoryPulls]_vars

\* aggregate_sales on every ordering of a list of line items: the list is
\* chosen at the start, reordered by exchanging neighbours and aggregated
InitAggregate ==
    /\ InitPipeline
    /\ InitSupplier
    /\ raw_items \in [1..MaxItems -> LineItems]
    /\ agg_out = NoneV
    /\ InitEngine

Reorder(i) ==
    /\ raw_items' = [raw_items EXCEPT ![i] = raw_items[i + 1],
                                      ![i + 1] = raw_items[i]]
    /\ raw_items' # raw_items
    /\ UNCHANGED agg_out
    /\ UNCHANGED <<pipeVars, supVars, engVars>>

Aggregate ==
    /\ agg_out' = aggregate_raw_items(raw_items, DAYS_DEFAULT)
    /\ UNCHANGED raw_items
    /\ UNCHANGED <<pipeVars, supVars, engVars>>

NextAggregate ==
    \/ \E i \in 1..(MaxItems - 1) : Reorder(i)
    \/ Aggregate

SpecAggregate == InitAggregate /\ [][NextAggregate]_vars

\* run_taps on chosen arguments: the arguments are chosen at the start and the
\* engine is called on them again and again, while the cache keys
\* taps:inventory_ts and taps:sales_meta are rewritten between the calls
InitEngineInputs ==
    /\ InitPipeline
    /\ InitSupplier
    /\ InitAggregator
    /\ eng_in \in EngineInputs
    /\ eng_out = NoneV

EngineCall(inv_ts, sales_meta) ==
    /\ eng_out' = run_taps_full(eng_in.inventory, eng_in.sales,
                                eng_in.store_totals, eng_in.wos_target,
                                eng_in.days, inv_ts, sales_meta)
    /\ UNCHANGED eng_in
    /\ UNCHANGED <<pipeVars, supVars, aggVars>>

NextEngine ==
    \E c \in CacheStates : EngineCall(c.inventory_ts, c.sales_meta)

SpecEngine == InitEngineInputs /\ [][NextEngine]_vars

\* ------------------------------------------------------------ properties

\* C1: at every moment at most one execution of the do_rebuild body is in
\* progress, whatever endpoint triggered it and however long it runs
\* relative to the expiry of the lock.
C1_AtMostOneRebuild ==
    Cardinality({t \in Tasks : InPipeline(t)}) <= 1

\* C2: of the rebuild triggers that race for a free lock exactly one
\* acquires it and runs the pipeline: the SET NX of a task succeeds exactly
\* when the key is absent, and a task whose SET NX failed ends without entering
\* do_rebuild, without having acquired, and without any write to the cache
\* (lock, locations, inventory, aggregate, totals, snapshot, cursors, progress).
C2_ExactlyOneAcquires ==
    [][ /\ \A t \in Tasks :
             pc[t] = "acquire" /\ pc'[t] # "acquire" =>
                IF lock = NoLock
                THEN lock' = t /\ acquired'[t] /\ pc'[t] = "inv"
                ELSE /\ lock' = lock
                     /\ ~acquired'[t]
                     /\ pc'[t] = "done"
                     /\ result'[t] = "notacquired"
                     /\ UNCHANGED <<locations, inventory, sales, totals,
                                    dashboard, cursor, progress>>
        /\ \A t \in Tasks :
             result'[t] = "notacquired" => ~wrote'[t] /\ ~acquired'[t]
        /\ \A t \in Tasks :
             kind'[t] = "locked" /\ InPipeline(t)' => acquired'[t]
      ]_vars

\* C2 witness: two triggers were scheduled while the lock was free; one holds
\* the lock and is inside the pipeline, the other has ended with a failed
\* SET NX and has written nothing.
C2_Witness ==
    \E a, b \in Tasks :
        /\ a # b
        /\ lock = a /\ acquired[a] /\ InPipeline(a)
        /\ kind[b] = "locked" /\ pc[b] = "done"
        /\ result[b] = "notacquired" /\ ~acquired[b] /\ ~wrote[b]

\* C3: a step of the release (the WATCH/GET or the MULTI/DEL/EXEC) of an
\* invocation whose token is not the value of the lock key leaves the key as
\* it is, whatever the order of its GET, its DEL, the expiry and the
\* acquisition by another invocation.
C3_ReleaseOnlyOwn ==
    [][\A t \in Tasks :
          pc[t] \in {"relget", "relexec"} /\ pc'[t] # pc[t] /\ lock # t
             => lock' = lock]_vars

\* C3 witness: A read its own token, the lock expired, B acquired it, and A's
\* transaction was aborted: A has ended and B's lock is in place.
C3_Witness ==
    \E a, b \in Tasks :
        /\ a # b
        /\ pc[a] = "done" /\ acquired[a] /\ dirty[a]
        /\ lock = b /\ acquired[b]

\* C4: non-clobber: when the sales phase of a rebuild fetched no line item
\* while a non-empty sales aggregate is cached, the rebuild's write of the raw
\* data leaves the cached aggregate and the cached totals as they were.
C4_NonClobber ==
    [][\A t \in Tasks :
          pc[t] = "finraw" /\ pc'[t] = "findash" /\ items[t] = EmptyAgg /\ Truthy(sales)
             => sales' = sales /\ totals' = totals]_vars

\* C5: the stored cursor of a location never decreases while it exists.
C5_CursorMonotone ==
    [][\A l \in Locs : cursor[l] # NoCursor => cursor'[l] >= cursor[l]]_vars

\* C6: after a rebuild in which the fetch failed for some locations while
\* others returned items, the cached aggregate and totals still hold the
\* entries the failed locations had before.
C6_FailedLocationsKept ==
    [][\A t \in Tasks :
          pc[t] = "finraw" /\ pc'[t] = "findash" /\ items[t] # EmptyAgg /\ Truthy(sales)
             => \A l \in ffail[t] :
                   sales[l] > 0 =>
                      /\ sales'[l] = sales[l]
                      /\ Truthy(totals) => totals'[l] = totals[l]]_vars

\* C7: whenever a snapshot is cached, a read with the default parameters
\* returns exactly that snapshot, whether or not a rebuild is running, writes
\* nothing to the cache and schedules no rebuild.
C7_CachedServed ==
    [][ ( /\ rpc = "idle" /\ rpc' # "idle"
          /\ rwos' = WOS_DEFAULT /\ rdays' = DAYS_DEFAULT
          /\ dashboard # NoSnap )
        => ( /\ rpc' = "ret"
             /\ rpath' = "cached"
             /\ rval' = dashboard
             /\ UNCHANGED <<cacheVars, taskVars>> )
      ]_vars

\* C7 witness: a default read is answered with the cached snapshot while a
\* rebuild is inside the pipeline.
C7_Witness ==
    /\ rpc = "ret" /\ rpath = "cached"
    /\ rwos = WOS_DEFAULT /\ rdays = DAYS_DEFAULT
    /\ dashboard # NoSnap /\ rval = dashboard
    /\ \E t \in Tasks : InPipeline(t)

\* C8: a read whose weeks-of-supply target or window days differ from the
\* default is never answered with the cached snapshot.
C8_NonDefaultNotCached ==
    rpc = "ret" /\ (rwos # WOS_DEFAULT \/ rdays # DAYS_DEFAULT) => rpath # "cached"

\* C9: the snapshot stored under taps:dashboard was computed with the default
\* weeks-of-supply target and the default window days.
C9_DashboardDefaultOnly ==
    dashboard \notin {NoSnap, EmptySnap}
       => dashboard.wos = WOS_DEFAULT /\ dashboard.days = DAYS_DEFAULT

\* C10: when a locked rebuild that acquired the lock has ended, by completion,
\* by the abort on an empty inventory or by an exception in the pipeline, the
\* lock key no longer holds its token, and the exception was caught (the task
\* ended with a recorded outcome).
C10_ReleasedOnEveryExit ==
    \A t \in Tasks :
        pc[t] = "done" /\ acquired[t]
           => lock # t /\ result[t] \in {"ok", "aborted", "failed"}

\* C10 witness: a locked rebuild that raised has ended and the key is free
C10_Witness ==
    \E t \in Tasks :
        /\ pc[t] = "done" /\ kind[t] = "locked" /\ acquired[t]
        /\ result[t] = "failed" /\ ~dirty[t] /\ lock = NoLock

\* C11: when a rebuild leaves the do_rebuild body, by return or by an
\* exception raised in any phase, the progress marker has been deleted.
C11_ProgressCleared ==
    [][\A t \in Tasks :
          InPipeline(t) /\ ~InPipeline(t)' => progress' = "none"]_vars

\* C12: when the inventory phase yields an empty inventory, the rebuild ends
\* there, without the sales and finalizing phases, with the progress marker
\* deleted and the cached snapshot, aggregate, totals and cursors unchanged.
C12_EmptyInventoryAborts ==
    [][\A t \in Tasks :
          pc[t] = "inv" /\ pc'[t] # "inv" /\ result'[t] # "failed" /\ tinv'[t] = NoInv
             => /\ pc'[t] = ExitPc(t)
                /\ result'[t] = "aborted"
                /\ progress' = "none"
                /\ UNCHANGED <<dashboard, sales, totals, cursor>>]_vars

\* C12 witness: a rebuild has aborted beside a cached snapshot, a non-empty
\* aggregate and a stored cursor
C12_Witness ==
    \E t \in Tasks :
        /\ pc[t] = "done" /\ result[t] = "aborted"
        /\ progress = "none"
        /\ dashboard # NoSnap /\ Truthy(sales)
        /\ \E l \in Locs : cursor[l] # NoCursor

\* C13: a lock holder that stops anywhere in the pipeline does not block
\* rebuilds forever: the key does not keep its token for ever, and while a
\* task slot is free a later trigger acquires the lock and enters the pipeline.
C13_HungHolderDoesNotBlock ==
    /\ \A t \in Tasks : (lock = t) ~> (lock # t)
    /\ \A t \in Tasks :
          (/\ lock = t
           /\ pc[t] \in {"sales", "fetch", "collect", "finraw", "findash"}
           /\ \E u \in Tasks : pc[u] = "idle")
             ~> (\E u \in Tasks : lock = u /\ pc[u] = "inv")

\* C13 witness: a rebuild is still in the pipeline after its lock expired,
\* and a later trigger has acquired the lock and entered the pipeline
C13_Witness ==
    \E t, u \in Tasks :
        /\ t # u
        /\ acquired[t] /\ pc[t] \in {"sales", "fetch", "collect", "finraw", "findash"}
        /\ lock = u /\ acquired[u] /\ pc[u] = "inv"

\* C14: a read that finds no snapshot but a cached inventory and a cached
\* sales aggregate, with or without entries, computes the snapshot from them
\* and goes on to store and return it; it does not answer "warming".
C14_SynthesizedOnMiss ==
    [][ ( /\ rpc = "missraw" /\ rpc' # "missraw"
          /\ InvTruthy(inventory) /\ sales # NoneV )
        => ( /\ rpc' = "write"
             /\ rpath' # "warming"
             /\ rval' = run_taps(inventory, sales,
                                 IF Truthy(totals) THEN totals ELSE EmptyAgg,
                                 rwos, rdays) )
      ]_vars

\* C15: a read that finds neither a snapshot nor raw data answers "warming"
\* and schedules a background rebuild, and no read is answered with an error
\* because of a cache miss.
C15_MissNeverErrors ==
    [][ /\ ( /\ rpc = "missraw" /\ rpc' # "missraw"
             /\ inventory = NoInv /\ sales = NoneV )
           => ( /\ rpc' = "ret" /\ rpath' = "warming" /\ rval' = Warming
                /\ \E u \in Tasks :
                     pc[u] = "idle" /\ pc'[u] = "inv" /\ kind'[u] = "safe" )
        /\ rpath' # "error404"
      ]_vars

\* C16: while a rebuild is in progress, whichever endpoint started it, a call
\* of the rebuild trigger endpoint schedules no locked rebuild.
C16_TriggerSkipsWhileRunning ==
    [][(\E t \in Tasks : InPipeline(t))
          => ~(\E u \in Tasks : pc[u] = "idle" /\ pc'[u] = "acquire")]_vars

\* C17: once a rebuild has produced the sales aggregate and the snapshot, a
\* further rebuild against the unchanged upstream, incremental or full-window,
\* writes the same aggregate, the same totals and the same snapshot.
C17_RebuildIdempotent ==
    [][ /\ sales # NoneV => sales' = sales /\ totals' = totals
        /\ dashboard # NoSnap => dashboard' = dashboard
      ]_vars

\* C18: in an incremental sync a location whose cursor exists and is at most
\* 3 days old is fetched from its cursor on, and a location whose cursor is
\* missing or older is fetched over the full window (2 days: from the cursor;
\* 4 days: the full window).
C18_CursorStaleness ==
    [][\A t \in Tasks, age \in 0..MaxAge, first \in BOOLEAN, pages \in 0..MaxOrders :
          PullOneWith(t, age, FALSE, first, pages) /\ tincr[t]
             => LET l == li[t]
                    from == IF cursor[l] # NoCursor /\ age <= 3
                            THEN cursor[l] ELSE NoCursor
                    r == pull_store_sales(from, up[l], first, pages)
                IN  /\ items'[t][l] = r[1]
                    /\ IF r[2] # NoCursor THEN last'[t] = r[2] ELSE last'[t] = last[t]
      ]_vars

\* C18 witness: in one incremental sync location 1 was fetched from its
\* cursor and had nothing new, and location 2, whose cursor is stale, was
\* fetched over the full window
C18_Witness ==
    \E t \in Tasks :
        /\ tincr[t] /\ pc[t] = "setc" /\ li[t] = 2
        /\ cursor[1] # NoCursor /\ cursor[1] = up[1]
        /\ items[t][1] = 0 /\ 1 \notin ffail[t]
        /\ cursor[2] # NoCursor /\ items[t][2] = up[2] /\ last[t] = up[2]

C20_CursorKeptWithoutNewMax ==
    [][\A t \in Tasks :
          /\ pc[t] = "fetch" /\ pc'[t] # "fetch" => cursor' = cursor
          /\ pc[t] = "setc" /\ pc'[t] # "setc" /\ items[t][li[t]] = 0
                => cursor'[li[t]] = cursor[li[t]]
      ]_vars

\* C21: within one rebuild the raw inventory, the raw sales aggregate and the
\* per-location totals are written only in the finalizing phase, and the
\* snapshot after them: no step of the inventory phase or of the sales phase
\* (a failing one included) changes any of the four keys.
C21_RawWrittenInFinalizing ==
    [][\A t \in Tasks :
          pc[t] \in {"inv", "sales", "fetch", "setc", "collect"} /\ pc'[t] # pc[t]
              => UNCHANGED <<inventory, sales, totals, dashboard>>
      ]_vars

\* C27: after an incremental rebuild in which a location returned new line
\* items, the persisted aggregate still accounts for what earlier rebuilds
\* aggregated: for every location it holds at least the earlier entry and at
\* least the newly fetched items.
C27_AggregateAccumulates ==
    [][\A t \in Tasks :
          /\ pc[t] = "finraw" /\ pc'[t] = "findash"
          /\ tincr[t] /\ items[t] # EmptyAgg /\ sales # NoneV
          => \A l \in Locs : sales'[l] >= Max(sales[l], items[t][l])
      ]_vars

\* C28: a rebuild that fails before it has persisted its aggregate has moved
\* no cursor: while no aggregate has ever been persisted, a failing rebuild
\* leaves every cursor unset.
C28_CursorAfterPersist ==
    [][\A t \in Tasks :
          /\ result[t] # "failed" /\ result'[t] = "failed"
          /\ sales = NoneV
          => cursor' = [l \in Locs |-> NoCursor]
      ]_vars

\* C29: once a rebuild has completed and none is running, a read-path
\* synthesis does not leave in the cache a snapshot computed from an older
\* aggregate than the one cached: the snapshot it stores is computed from the
\* cached aggregate.
C29_SnapshotFromCachedRaw ==
    [][( /\ rpc = "write" /\ rpc' = "ret"
         /\ \A t \in Tasks : ~InPipeline(t)
         /\ \E t \in Tasks : pc[t] = "done" /\ result[t] = "ok" )
       => dashboard'.sales = sales'
      ]_vars

\* C22: once a supplier has been learned for an item id, every later inventory
\* build whose upstream row for the item omits the supplier still emits the
\* learned supplier, overlapping pulls included.
C22_SupplierRemembered ==
    [][\A c \in Pulls, v \in Vids :
          /\ ipc[c] = "rows" /\ ipc'[c] = "set"
          /\ irows[c][v] = NoSup /\ after[c][v] # NoSup
          => iout'[c][v] = after[c][v]
      ]_vars

\* C24: for every ordering of a fixed multiset of line items the aggregator
\* returns the same set of per-(location, item) aggregates and the same
\* per-location totals.
C24_OrderIndependent ==
    [][agg_out # NoneV /\ agg_out' # agg_out
          => /\ {agg_out'.result[i] : i \in 1..Len(agg_out'.result)}
                    = {agg_out.result[i] : i \in 1..Len(agg_out.result)}
             /\ agg_out'.store_totals = agg_out.store_totals
      ]_vars


\* C23: the engine is a pure function of its five arguments: a call with the
\* arguments of an earlier call returns the output of that call, whatever the
\* cache holds at the time of either call (the arguments eng_in never change,
\* so every call that follows an output is such a call)
C23_EnginePure ==
    [][eng_out # NoneV => eng_out' = eng_out]_vars

RECURSIVE SoldWv(_, _, _)
\* The weekly velocities of an item at the stores 1..sn that sold it, in a
\* sales list with one entry per store and item
SoldWv(entries, vid, sn) ==
    IF sn = 0 THEN <<>>
    ELSE LET E == SelectSeq(entries, LAMBDA e : e.s = sn /\ e.vid = vid /\ e.q > 0)
         IN  SoldWv(entries, vid, sn - 1) \o [i \in 1..Len(E) |-> E[i].wv]

RECURSIVE FSum(_, _)
\* The sum of the first n floats of a sequence
FSum(xs, n) == IF n = 0 THEN FZero ELSE FAdd(FSum(xs, n - 1), xs[n])

\* The average weekly velocity of an item over the stores that sold it, as
\* the snapshot reports a velocity (to two decimals)
MeanSoldWv(entries, vid) ==
    LET xs == SoldWv(entries, vid, NumStores)
    IN  Round2(FDivNat(FSum(xs, Len(xs)), Len(xs)))

\* C25: a product row of a store Y for an item with zero sales at Y that sold
\* at other stores has, when Y has no sales at all, the average weekly
\* velocity of the item over the stores that sold it (not 0), and has the
\* velocity 0 when Y has sales of other items
C25_CrossLocationFallback ==
    eng_out # NoneV =>
        \A i \in 1..Len(eng_out.pd) :
            LET p == eng_out.pd[i]
                S == eng_in.sales
                at_y == {k \in 1..Len(S) : S[k].s = p.s}
                of_item == {k \in 1..Len(S) : S[k].vid = p.vid /\ S[k].q > 0}
            IN  (of_item # {} /\ \A k \in at_y : S[k].vid # p.vid) =>
                    IF at_y = {}
                    THEN p.wv = MeanSoldWv(S, p.vid) /\ p.wv # FZero
                    ELSE p.wv = FZero

\* C25 witness: the item sells 10 a week at store 1 only, store 3 holds it and
\* has no sales, and the row of store 3 has the velocity 10
C25_Witness ==
    /\ eng_out # NoneV
    /\ eng_in.sales = <<SalesEntries[1]>>
    /\ \E i \in 1..Len(eng_out.pd) :
          /\ eng_out.pd[i].s = 3
          /\ eng_out.pd[i].vid = 1
          /\ eng_out.pd[i].wv = FromNat(10)

RECURSIVE SumSsCogs(_, _)
\* The sum of the cogs of the first n per-store rows of a snapshot
SumSsCogs(ss, n) == IF n = 0 THEN 0 ELSE SumSsCogs(ss, n - 1) + ss[n].cogs

RECURSIVE SumPdCents(_, _, _)
\* The sum, in hundredths, of the cogs of the product rows 1..n of a store
SumPdCents(pd, sn, n) ==
    IF n = 0 THEN 0
    ELSE SumPdCents(pd, sn, n - 1) + (IF pd[n].s = sn THEN ToCents(pd[n].cogs) ELSE 0)

\* C26: in every snapshot the engine produces, the global cogs equals the sum
\* of the per-store cogs, and the cogs of each store equals the sum of the
\* cogs of the product rows of the store (amounts compared in hundredths)
C26_CogsReconcile ==
    (eng_out # NoneV /\ eng_out.pd # <<>>) =>
        /\ ToCents(eng_out.st.cogs)
             = 100 * SumSsCogs(eng_out.ss, Len(eng_out.ss))
        /\ \A j \in 1..Len(eng_out.ss) :
              100 * eng_out.ss[j].cogs
                = SumPdCents(eng_out.pd, eng_out.ss[j].s, Len(eng_out.pd))

=============================================================================
